---- MODULE Spec2Model ----
(***************************************************************************)
(* RFB (VNC) handshake of the repository: the mock server                  *)
(* (test_vnc_server.py, MockVNCServer.handle_client) and the client        *)
(* (test_vnc_protocol.py, test_vnc_handshake), each one blocking socket    *)
(* call per step, over a TCP byte stream.                                  *)
(*                                                                         *)
(* A stream socket's recv(n) returns between 1 and n of the bytes that     *)
(* have arrived, b'' at end of stream, or raises (timeout, reset).         *)
(***************************************************************************)
EXTENDS Integers, Sequences, FiniteSets, TLC

VARIABLES
    cl,         \* test_vnc_handshake: its position and locals
    sv,         \* handle_client: its position and locals
    net,        \* the connection: bytes in flight, closed ends, pending resets
    byteorder,  \* sys.byteorder of the host the server runs on
    conns,      \* MockVNCServer with several clients: per connection, its handler thread
    srv         \* MockVNCServer with several clients: running, the listening socket, clients

vars == <<cl, sv, net, byteorder, conns, srv>>

(***************************** bounds **************************************)
\* consecutive idle timeouts of the session loop that are followed
MaxIdle == 2
\* longest security offer a scripted server sends
MaxTypes == 2
\* longest reason string a scripted server sends
MaxReason == 2
\* most session messages a scripted client sends
MaxMsgs == 2

(***************************** bytes ***************************************)
Min(a, b) == IF a < b THEN a ELSE b

Take(s, k) == SubSeq(s, 1, k)

Drop(s, k) == SubSeq(s, k + 1, Len(s))

\* struct.pack('!H', v)
U16BE(v) == <<(v \div 256) % 256, v % 256>>

\* struct.pack('<H', v): what native 'H' is on a little-endian host
U16LE(v) == <<v % 256, (v \div 256) % 256>>

\* struct.pack('!I', v)
U32BE(v) == <<(v \div 16777216) % 256, (v \div 65536) % 256, (v \div 256) % 256, v % 256>>

\* struct.unpack('!H', b)[0]
DecU16BE(b) == b[1] * 256 + b[2]

\* struct.unpack('!I', b)[0]; the values met here stay below 2^31
DecU32BE(b) == ((b[1] * 256 + b[2]) * 256 + b[3]) * 256 + b[4]

\* struct.pack('H', v) in native mode
PackNativeH(v, order) == IF order = "big" THEN U16BE(v) ELSE U16LE(v)

\* bytes.decode('ascii') succeeds
AsciiOk(b) == \A i \in 1..Len(b) : b[i] < 128

\* str.isspace for an ASCII character
IsSpace(c) == c \in {9, 10, 11, 12, 13, 28, 29, 30, 31, 32}

RECURSIVE LStrip(_)
LStrip(s) == IF s # <<>> /\ IsSpace(s[1]) THEN LStrip(Drop(s, 1)) ELSE s

RECURSIVE RStrip(_)
RStrip(s) == IF s # <<>> /\ IsSpace(s[Len(s)]) THEN RStrip(Take(s, Len(s) - 1)) ELSE s

\* str.strip()
Strip(s) == RStrip(LStrip(s))

\* str.startswith
StartsWith(s, p) == Len(s) >= Len(p) /\ Take(s, Len(p)) = p

Cont(c) == c >= 128 /\ c <= 191

\* bytes.decode('utf-8') succeeds (strict)
RECURSIVE Utf8Ok(_)
Utf8Ok(b) ==
    IF b = <<>> THEN TRUE
    ELSE IF b[1] < 128 THEN Utf8Ok(Drop(b, 1))
    ELSE IF b[1] >= 194 /\ b[1] <= 223
        THEN Len(b) >= 2 /\ Cont(b[2]) /\ Utf8Ok(Drop(b, 2))
    ELSE IF b[1] >= 224 /\ b[1] <= 239
        THEN /\ Len(b) >= 3 /\ Cont(b[2]) /\ Cont(b[3])
             /\ (b[1] = 224 => b[2] >= 160)
             /\ (b[1] = 237 => b[2] <= 159)
             /\ Utf8Ok(Drop(b, 3))
    ELSE IF b[1] >= 240 /\ b[1] <= 244
        THEN /\ Len(b) >= 4 /\ Cont(b[2]) /\ Cont(b[3]) /\ Cont(b[4])
             /\ (b[1] = 240 => b[2] >= 144)
             /\ (b[1] = 244 => b[2] <= 143)
             /\ Utf8Ok(Drop(b, 4))
    ELSE FALSE

(***************************** wire constants ******************************)
\* b"RFB 003.008\n"
RFB_VERSION == <<82, 70, 66, 32, 48, 48, 51, 46, 48, 48, 56, 10>>

SECURITY_NONE == 1

\* 'RFB 003.'
VersionPrefix == <<82, 70, 66, 32, 48, 48, 51, 46>>

\* b"Horcrux Test VM"
DesktopName == <<72, 111, 114, 99, 114, 117, 120, 32, 84, 101, 115, 116, 32, 86, 77>>

ServerWidth == 1024

ServerHeight == 768

\* struct.pack('BB', 1, self.SECURITY_NONE)
SecurityTypesMsg == <<1, SECURITY_NONE>>

\* struct.pack('!I', 0)
SecurityResultMsg == U32BE(0)

\* struct.pack('BBBB HHH BBB xxx', 32, 24, 0, 1, 255, 255, 255, 16, 8, 0): native
\* mode; the three H sit at offsets 4, 6, 8, so no alignment padding is added
PixelFormatMsg(order) ==
    <<32, 24, 0, 1>> \o PackNativeH(255, order) \o PackNativeH(255, order)
        \o PackNativeH(255, order) \o <<16, 8, 0>> \o <<0, 0, 0>>

\* ServerInit with the name length packed as '<I' instead of '!I'
ServerInitMsg_LittleEndianLen(width, height, order, name) ==
    U16BE(width) \o U16BE(height) \o PixelFormatMsg(order)
        \o U16LE(Len(name)) \o <<0, 0>> \o name

\* struct.pack('!HH', width, height) + pixel_format + struct.pack('!I', len(name)) + name
ServerInitMsg(width, height, order, name) ==
    U16BE(width) \o U16BE(height) \o PixelFormatMsg(order) \o U32BE(Len(name)) \o name

\* struct.pack('!BxH', 0, 0)
FbUpdateMsg == <<0, 0, 0, 0>>

\* struct.pack('!BBHHHH', 3, 0, 0, 0, width, height)
FbUpdateRequestMsg(width, height) ==
    <<3, 0>> \o U16BE(0) \o U16BE(0) \o U16BE(width) \o U16BE(height)

(***************************** the socket ***********************************)
\* socket.recv(n) on a stream of which `chan` has arrived: any non-empty prefix up
\* to n bytes; b'' at end of stream (and for n = 0); socket.timeout when the socket
\* has a timeout and the peer stays silent; ConnectionResetError after a reset.
\* No outcome: the call blocks.
RecvOutcomes(chan, n, peerClosed, rst, timed) ==
    (IF n = 0 THEN {[kind |-> "data", k |-> 0]}
     ELSE IF chan # <<>> THEN {[kind |-> "data", k |-> k] : k \in 1..Min(n, Len(chan))}
     ELSE IF peerClosed THEN {[kind |-> "data", k |-> 0]}
     ELSE IF timed THEN {[kind |-> "timeout", k |-> 0]}
     ELSE {})
    \cup (IF rst THEN {[kind |-> "error", k |-> 0]} ELSE {})

\* socket.sendall: TRUE = sent, FALSE = raised (BrokenPipeError/ConnectionResetError)
SendOutcomes(rst) == IF rst THEN {TRUE, FALSE} ELSE {TRUE}

SRecvPcs == {"recv_version", "recv_selection", "recv_client_init", "session"}

CRecvPcs == {"recv_version", "recv_num_types", "recv_fail_reason_length", "recv_fail_reason",
             "recv_sec_type", "recv_security_result", "recv_result_reason_length",
             "recv_result_reason", "recv_server_init", "recv_name_length", "recv_name",
             "recv_response"}

\* the server will send nothing until the client does something
ServerSilent == sv.pc = "absent" \/ (sv.pc \in SRecvPcs /\ net.c2s = <<>>)

\* the client will send nothing until the server does something
ClientSilent == cl.pc \in {"absent", "done"} \/ (cl.pc \in CRecvPcs /\ net.s2c = <<>>)

\* the connection after the server end consumed k bytes
NetSRecv(k) == [net EXCEPT !.c2s = Drop(@, k)]

\* the connection after the client end consumed k bytes
NetCRecv(k) == [net EXCEPT !.s2c = Drop(@, k)]

\* the connection after the server end sent b: to a closed peer the bytes are
\* dropped and answered by a reset
NetSSend(b) == IF net.cclosed THEN [net EXCEPT !.srst = TRUE] ELSE [net EXCEPT !.s2c = @ \o b]

NetCSend(b) == IF net.sclosed THEN [net EXCEPT !.crst = TRUE] ELSE [net EXCEPT !.c2s = @ \o b]

\* a handler that leaves without closing its socket
NetSClose_Leak(n) == n

\* client_socket.close() (handle_client's finally): unread input makes the close a reset
NetSClose(n) ==
    [n EXCEPT !.sclosed = TRUE, !.c2s = <<>>, !.crst = @ \/ (n.c2s # <<>> /\ ~n.cclosed)]

\* sock.close()
NetCClose(n) ==
    [n EXCEPT !.cclosed = TRUE, !.s2c = <<>>, !.srst = @ \/ (n.s2c # <<>> /\ ~n.sclosed)]

(***************************** MockVNCServer *******************************)
\* the length test of Step 2 left out
ClientVersionOk_NoTest(client_version) == TRUE

\* len(client_version) == 12
ClientVersionOk(client_version) == Len(client_version) = 12

\* len(security_selection) == 1
SecuritySelectionOk(security_selection) == Len(security_selection) = 1

\* len(client_init) == 1
ClientInitOk_SharedOnly(client_init) == Len(client_init) = 1 /\ client_init[1] = 1

ClientInitOk(client_init) == Len(client_init) = 1

\* msg_type == 3
IsFbUpdateRequest(data) == data[1] = 3

\* the handler's locals after a handshake recv(n) that returned k bytes, or raised (-1)
SvRead(n, o) == [sv EXCEPT !.reads = Append(@, <<n, IF o.kind = "data" THEN o.k ELSE -1>>)]

\* handle_client leaves through finally
SvDone_Retry(s) == [s EXCEPT !.pc = "send_version"]

SvDone(s) == [s EXCEPT !.pc = "done"]

\* a sendall of the handshake: on an exception the outer except and finally run
ServerSend(at, msg, next) ==
    /\ sv.pc = at
    /\ \E ok \in SendOutcomes(net.srst) :
        /\ sv' = IF ok THEN [sv EXCEPT !.pc = next, !.sent = Append(@, msg)] ELSE SvDone(sv)
        /\ net' = IF ok THEN NetSSend(msg) ELSE NetSClose(net)
    /\ UNCHANGED <<cl, byteorder, conns, srv>>

\* a recv(n) of the handshake (blocking, no timeout): `ok` is the length test,
\* `store` the local that keeps the bytes
ServerRecv(at, n, next) ==
    /\ sv.pc = at
    /\ \E o \in RecvOutcomes(net.c2s, n, net.cclosed, net.srst, FALSE) :
        LET data == Take(net.c2s, o.k)
            good == /\ o.kind = "data"
                    /\ CASE at = "recv_version" -> ClientVersionOk(data)
                         [] at = "recv_selection" -> SecuritySelectionOk(data)
                         [] OTHER -> ClientInitOk(data)
            read == SvRead(n, o)
        IN  /\ sv' = IF good
                     THEN [read EXCEPT !.pc = next,
                                       !.client_version = IF at = "recv_version" THEN data ELSE @,
                                       !.selected = IF at = "recv_selection" THEN data[1] ELSE @,
                                       !.shared_flag = IF at = "recv_client_init" THEN data[1] ELSE @]
                     ELSE SvDone(read)
            /\ net' = IF good THEN NetSRecv(o.k) ELSE NetSClose(NetSRecv(o.k))
    /\ UNCHANGED <<cl, byteorder, conns, srv>>

\* server_socket.accept() and the start of the handler thread
ServerAccept ==
    /\ sv.pc = "accept"
    /\ net.connected
    /\ sv' = [sv EXCEPT !.pc = "send_version"]
    /\ UNCHANGED <<cl, net, byteorder, conns, srv>>

\* Step 1
ServerSendVersion == ServerSend("send_version", RFB_VERSION, "recv_version")

\* Step 2
ServerRecvVersion == ServerRecv("recv_version", 12, "send_security_types")

\* Step 3
ServerSendSecurityTypes == ServerSend("send_security_types", SecurityTypesMsg, "recv_selection")

\* Step 4
ServerRecvSelection == ServerRecv("recv_selection", 1, "send_security_result")

\* goes on to ServerInit without the read of ClientInit
ServerSendSecurityResult_NoWait ==
    ServerSend("send_security_result", SecurityResultMsg, "send_server_init")

\* Step 5
ServerSendSecurityResult == ServerSend("send_security_result", SecurityResultMsg, "recv_client_init")

\* Step 6
ServerRecvClientInit == ServerRecv("recv_client_init", 1, "send_server_init")

\* Step 7
ServerSendServerInit ==
    ServerSend("send_server_init",
               ServerInitMsg(ServerWidth, ServerHeight, byteorder, DesktopName), "session")

\* leaves the loop at a timeout
SessionContinues_DataOnly(kind, data) == kind = "data" /\ data # <<>>

\* except socket.timeout: continue; if not data: break; except Exception: break
SessionContinues(kind, data) == kind = "timeout" \/ (kind = "data" /\ data # <<>>)

\* Step 8: settimeout(1.0); recv(1024); a timeout continues the loop, b'' or an
\* error breaks it, a message of type 3 is answered
ServerSessionRecv ==
    /\ sv.pc = "session"
    /\ \E o \in RecvOutcomes(net.c2s, 1024, net.cclosed, net.srst,
                             ClientSilent /\ sv.idle < MaxIdle) :
        LET data == Take(net.c2s, o.k)
            read == IF o.kind = "data" THEN [sv EXCEPT !.data = data] ELSE sv
            stay == SessionContinues(o.kind, data)
        IN  /\ sv' = IF ~stay THEN SvDone(read)
                     ELSE IF o.kind = "timeout" THEN [sv EXCEPT !.idle = @ + 1]
                     ELSE IF IsFbUpdateRequest(data) THEN [read EXCEPT !.pc = "send_fb_update"]
                     ELSE read
            /\ net' = IF stay THEN NetSRecv(o.k) ELSE NetSClose(NetSRecv(o.k))
    /\ UNCHANGED <<cl, byteorder, conns, srv>>

\* the empty FramebufferUpdate; an exception is caught in the loop, which breaks
ServerSendFbUpdate == ServerSend("send_fb_update", FbUpdateMsg, "session")

(***************************** MockVNCServer.start, stop *******************)
\* two simultaneous connections
Conns == {"a", "b"}

PoolHandshakeRecvPcs == {"recv_version", "recv_selection", "recv_client_init"}

\* a close that hits every client socket of the server
PoolClose_All(cs, c) == [d \in Conns |-> [cs[d] EXCEPT !.closed = TRUE, !.c2s = <<>>]]

\* client_socket.close() in the finally of connection c's handler
PoolClose(cs, c) == [cs EXCEPT ![c].closed = TRUE, ![c].c2s = <<>>]

\* a handler that ends without its finally
PoolDone_NoClose(c) == [conns EXCEPT ![c].pc = "done"]

\* the handler of connection c leaves through finally
PoolDone(c) == PoolClose([conns EXCEPT ![c].pc = "done"], c)

\* the outcomes of a recv(n) of connection c's handler; on a socket object that
\* stop() closed the call raises, unless the thread was already inside a
\* blocking recv, which stays blocked
PoolRecvOutcomes(c, n) ==
    IF conns[c].closed
    THEN (IF conns[c].stuck THEN {} ELSE {[kind |-> "error", k |-> 0]})
    ELSE RecvOutcomes(conns[c].c2s, n, conns[c].cclosed, conns[c].rst, FALSE)

\* the thread of connection c is inside a handshake recv that has not returned
PoolInRecv(c) ==
    /\ conns[c].pc \in PoolHandshakeRecvPcs
    /\ RecvOutcomes(conns[c].c2s, 1, conns[c].cclosed, conns[c].rst, FALSE) = {}

\* a sendall of connection c's handler; it raises on a closed socket object
PoolSend(c, at, msg, next) ==
    /\ conns[c].pc = at
    /\ \E ok \in (IF conns[c].closed THEN {FALSE} ELSE SendOutcomes(conns[c].rst)) :
        conns' = IF ok
                 THEN [conns EXCEPT ![c].pc = next, ![c].sent = Append(@, msg),
                                    ![c].rst = @ \/ conns[c].cclosed]
                 ELSE PoolDone(c)
    /\ UNCHANGED <<cl, sv, net, byteorder, srv>>

\* a handshake recv(n) of connection c's handler and its length test
PoolRecv(c, at, n, next) ==
    /\ conns[c].pc = at
    /\ \E o \in PoolRecvOutcomes(c, n) :
        LET data == Take(conns[c].c2s, o.k)
            good == /\ o.kind = "data"
                    /\ CASE at = "recv_version" -> ClientVersionOk(data)
                         [] at = "recv_selection" -> SecuritySelectionOk(data)
                         [] OTHER -> ClientInitOk(data)
        IN  conns' = IF good THEN [conns EXCEPT ![c].pc = next, ![c].c2s = Drop(@, o.k)]
                     ELSE PoolDone(c)
    /\ UNCHANGED <<cl, sv, net, byteorder, srv>>

\* server_socket.accept(); the handler thread of the connection starts and the
\* pair is appended to self.clients
PoolAccept(c) ==
    /\ srv.running /\ ~srv.lclosed
    /\ conns[c].pc = "backlog"
    /\ conns' = [conns EXCEPT ![c].pc = "send_version"]
    /\ srv' = [srv EXCEPT !.clients = @ \cup {c}]
    /\ UNCHANGED <<cl, sv, net, byteorder>>

PoolSendVersion(c) == PoolSend(c, "send_version", RFB_VERSION, "recv_version")

PoolRecvVersion(c) == PoolRecv(c, "recv_version", 12, "send_security_types")

PoolSendSecurityTypes(c) ==
    PoolSend(c, "send_security_types", SecurityTypesMsg, "recv_selection")

PoolRecvSelection(c) == PoolRecv(c, "recv_selection", 1, "send_security_result")

PoolSendSecurityResult(c) ==
    PoolSend(c, "send_security_result", SecurityResultMsg, "recv_client_init")

PoolRecvClientInit(c) == PoolRecv(c, "recv_client_init", 1, "send_server_init")

PoolSendServerInit(c) ==
    PoolSend(c, "send_server_init",
             ServerInitMsg(ServerWidth, ServerHeight, byteorder, DesktopName), "session")

\* one round of the session loop that changes something: settimeout and recv
\* raise on a closed socket object; a timeout changes nothing
PoolSessionRecv(c) ==
    /\ conns[c].pc = "session"
    /\ \E o \in PoolRecvOutcomes(c, 1024) :
        LET data == Take(conns[c].c2s, o.k)
        IN  conns' = IF ~SessionContinues(o.kind, data) THEN PoolDone(c)
                     ELSE [conns EXCEPT ![c].c2s = Drop(@, o.k),
                                        ![c].pc = IF IsFbUpdateRequest(data)
                                                  THEN "send_fb_update" ELSE "session"]
    /\ UNCHANGED <<cl, sv, net, byteorder, srv>>

PoolSendFbUpdate(c) == PoolSend(c, "send_fb_update", FbUpdateMsg, "session")

\* the accept loop is interrupted and stop() runs: running = False, every socket
\* in self.clients is closed, then the listening socket. A thread inside a
\* blocking recv is woken by the close or not, as the platform has it.
PoolStop ==
    /\ srv.running
    /\ \E wakes \in BOOLEAN :
        conns' = [c \in Conns |->
                    IF c \in srv.clients /\ ~conns[c].closed
                    THEN [conns[c] EXCEPT !.closed = TRUE,
                                          !.stuck = ~wakes /\ PoolInRecv(c)]
                    ELSE conns[c]]
    /\ srv' = [srv EXCEPT !.running = FALSE, !.lclosed = TRUE]
    /\ UNCHANGED <<cl, sv, net, byteorder>>

(***************************** test_vnc_handshake **************************)
\* len(server_version) != 12 is False
ServerVersionLenOk(server_version) == Len(server_version) = 12

\* server_version.decode('ascii').strip().startswith('RFB 003.')
VersionAccepted(server_version) ==
    AsciiOk(server_version) /\ StartsWith(Strip(server_version), VersionPrefix)

\* the count-0 branch of Step 3 left out
OfferEmpty_Never(num_types) == FALSE

\* num_types == 0
OfferEmpty(num_types) == num_types = 0

\* Step 4 without its membership test
NoneOffered_Always(security_types) == TRUE

\* looks at the first offered type only
NoneOffered_First(security_types) == security_types[1] = 1

\* 1 not in security_types is False
NoneOffered(security_types) == \E i \in 1..Len(security_types) : security_types[i] = 1

\* security_result != 0 is False
SecurityResultOk_Always(security_result) == TRUE

\* Step 5: if security_result != 0 (the failure branch)
SecurityResultOk(security_result) == security_result = 0

\* leaves the loop after its first round
OfferComplete_One(security_types, num_types) == TRUE

\* for _ in range(num_types): the loop has run num_types rounds
OfferComplete(security_types, num_types) == Len(security_types) >= num_types

\* len(server_init) != 24 is False
ServerInitLenOk(server_init) == Len(server_init) = 24

\* the client's locals after a recv(n) that returned k bytes, or raised (-1)
ClRead(n, o) == [cl EXCEPT !.reads = Append(@, <<n, IF o.kind = "data" THEN o.k ELSE -1>>)]

\* return False: no path to it closes sock
ClFail(c) == [c EXCEPT !.pc = "done", !.ret = "False"]

\* the outcomes of the client's recv(n); the socket has a timeout
ClRecv(n) == RecvOutcomes(net.s2c, n, net.sclosed, net.crst, ServerSilent)

\* a sendall of the client: an exception returns False
ClientSend(at, msg, next) ==
    /\ cl.pc = at
    /\ \E ok \in SendOutcomes(net.crst) :
        /\ cl' = IF ok THEN [cl EXCEPT !.pc = next, !.sent = Append(@, msg)] ELSE ClFail(cl)
        /\ net' = IF ok THEN NetCSend(msg) ELSE net
    /\ UNCHANGED <<sv, byteorder, conns, srv>>

\* socket(), settimeout(5.0), connect(): ConnectionRefusedError returns False
ClientConnect ==
    /\ cl.pc = "connect"
    /\ cl' = IF net.listening THEN [cl EXCEPT !.pc = "recv_version"] ELSE ClFail(cl)
    /\ net' = [net EXCEPT !.connected = net.listening]
    /\ UNCHANGED <<sv, byteorder, conns, srv>>

\* Step 1
ClientRecvVersion ==
    /\ cl.pc = "recv_version"
    /\ \E o \in ClRecv(12) :
        LET data == Take(net.s2c, o.k)
            good == o.kind = "data" /\ ServerVersionLenOk(data) /\ VersionAccepted(data)
            read == ClRead(12, o)
        IN  /\ cl' = IF good THEN [read EXCEPT !.pc = "send_version", !.server_version = data]
                     ELSE ClFail(IF o.kind = "data"
                                 THEN [read EXCEPT !.server_version = data] ELSE read)
            /\ net' = NetCRecv(o.k)
    /\ UNCHANGED <<sv, byteorder, conns, srv>>

\* answers with the version the client itself speaks
ClientSendVersion_Own == ClientSend("send_version", RFB_VERSION, "recv_num_types")

\* Step 2
ClientSendVersion == ClientSend("send_version", cl.server_version, "recv_num_types")

\* Step 3: struct.unpack('B', sock.recv(1)) raises on b''
ClientRecvNumTypes ==
    /\ cl.pc = "recv_num_types"
    /\ \E o \in ClRecv(1) :
        LET data == Take(net.s2c, o.k)
            good == o.kind = "data" /\ Len(data) = 1
            read == ClRead(1, o)
        IN  /\ cl' = IF ~good THEN ClFail(read)
                     ELSE [read EXCEPT !.num_types = data[1],
                                       !.security_types = <<>>,
                                       !.pc = IF OfferEmpty(data[1]) THEN "recv_fail_reason_length"
                                              ELSE "recv_sec_type"]
            /\ net' = NetCRecv(o.k)
    /\ UNCHANGED <<sv, byteorder, conns, srv>>

\* num_types == 0: reason_length = struct.unpack('!I', sock.recv(4))[0]
ClientRecvFailReasonLength ==
    /\ cl.pc = "recv_fail_reason_length"
    /\ \E o \in ClRecv(4) :
        LET data == Take(net.s2c, o.k)
            good == o.kind = "data" /\ Len(data) = 4
            read == ClRead(4, o)
        IN  /\ cl' = IF ~good THEN ClFail(read)
                     ELSE [read EXCEPT !.reason_length = DecU32BE(data),
                                       !.pc = "recv_fail_reason"]
            /\ net' = NetCRecv(o.k)
    /\ UNCHANGED <<sv, byteorder, conns, srv>>

\* reason = sock.recv(reason_length).decode('utf-8'); return False
ClientRecvFailReason ==
    /\ cl.pc = "recv_fail_reason"
    /\ \E o \in ClRecv(cl.reason_length) :
        LET data == Take(net.s2c, o.k)
            read == IF o.kind = "data"
                    THEN [ClRead(cl.reason_length, o) EXCEPT !.reason = data] ELSE ClRead(cl.reason_length, o)
        IN  /\ cl' = ClFail(read)
            /\ net' = NetCRecv(o.k)
    /\ UNCHANGED <<sv, byteorder, conns, srv>>

\* the loop body, and after its last round Step 4's test
ClientRecvSecType ==
    /\ cl.pc = "recv_sec_type"
    /\ \E o \in ClRecv(1) :
        LET data == Take(net.s2c, o.k)
            good == o.kind = "data" /\ Len(data) = 1
            read == ClRead(1, o)
            types == Append(cl.security_types, data[1])
        IN  /\ cl' = IF ~good THEN ClFail(read)
                     ELSE IF ~OfferComplete(types, cl.num_types)
                        THEN [read EXCEPT !.security_types = types]
                     ELSE IF NoneOffered(types)
                        THEN [read EXCEPT !.security_types = types, !.pc = "send_selection"]
                     ELSE ClFail([read EXCEPT !.security_types = types])
            /\ net' = NetCRecv(o.k)
    /\ UNCHANGED <<sv, byteorder, conns, srv>>

\* Step 4: sock.sendall(struct.pack('B', 1))
ClientSendSelection == ClientSend("send_selection", <<1>>, "recv_security_result")

\* Step 5
ClientRecvSecurityResult ==
    /\ cl.pc = "recv_security_result"
    /\ \E o \in ClRecv(4) :
        LET data == Take(net.s2c, o.k)
            good == o.kind = "data" /\ Len(data) = 4
            read == ClRead(4, o)
        IN  /\ cl' = IF ~good THEN ClFail(read)
                     ELSE [read EXCEPT !.security_result = DecU32BE(data),
                                       !.pc = IF SecurityResultOk(DecU32BE(data))
                                              THEN "send_client_init"
                                              ELSE "recv_result_reason_length"]
            /\ net' = NetCRecv(o.k)
    /\ UNCHANGED <<sv, byteorder, conns, srv>>

\* security_result != 0: try: reason_length = struct.unpack('!I', sock.recv(4))[0]
ClientRecvResultReasonLength ==
    /\ cl.pc = "recv_result_reason_length"
    /\ \E o \in ClRecv(4) :
        LET data == Take(net.s2c, o.k)
            good == o.kind = "data" /\ Len(data) = 4
            read == ClRead(4, o)
        IN  /\ cl' = IF ~good THEN ClFail(read)
                     ELSE [read EXCEPT !.reason_length = DecU32BE(data),
                                       !.pc = "recv_result_reason"]
            /\ net' = NetCRecv(o.k)
    /\ UNCHANGED <<sv, byteorder, conns, srv>>

\* reason = sock.recv(reason_length).decode('utf-8'); except: pass; return False
ClientRecvResultReason ==
    /\ cl.pc = "recv_result_reason"
    /\ \E o \in ClRecv(cl.reason_length) :
        LET data == Take(net.s2c, o.k)
            read == IF o.kind = "data"
                    THEN [ClRead(cl.reason_length, o) EXCEPT !.reason = data] ELSE ClRead(cl.reason_length, o)
        IN  /\ cl' = ClFail(read)
            /\ net' = NetCRecv(o.k)
    /\ UNCHANGED <<sv, byteorder, conns, srv>>

\* Step 6: shared_flag = 1
ClientSendClientInit == ClientSend("send_client_init", <<1>>, "recv_server_init")

\* Step 7: server_init = sock.recv(24), then the parse of width, height and of
\* pixel_format = server_init[4:24]
ClientRecvServerInit ==
    /\ cl.pc = "recv_server_init"
    /\ \E o \in ClRecv(24) :
        LET data == Take(net.s2c, o.k)
            good == o.kind = "data" /\ ServerInitLenOk(data)
            read == ClRead(24, o)
            pixel_format == SubSeq(data, 5, 24)
        IN  /\ cl' = IF ~good THEN ClFail(read)
                     ELSE [read EXCEPT !.pc = "recv_name_length",
                                       !.server_init = data,
                                       !.width = DecU16BE(SubSeq(data, 1, 2)),
                                       !.height = DecU16BE(SubSeq(data, 3, 4)),
                                       !.bits_per_pixel = pixel_format[1],
                                       !.depth = pixel_format[2],
                                       !.big_endian = pixel_format[3],
                                       !.true_color = pixel_format[4],
                                       !.red_max = DecU16BE(SubSeq(pixel_format, 5, 6)),
                                       !.green_max = DecU16BE(SubSeq(pixel_format, 7, 8)),
                                       !.blue_max = DecU16BE(SubSeq(pixel_format, 9, 10)),
                                       !.red_shift = pixel_format[11],
                                       !.green_shift = pixel_format[12],
                                       !.blue_shift = pixel_format[13]]
            /\ net' = NetCRecv(o.k)
    /\ UNCHANGED <<sv, byteorder, conns, srv>>

\* name_length = struct.unpack('!I', sock.recv(4))[0]
ClientRecvNameLength ==
    /\ cl.pc = "recv_name_length"
    /\ \E o \in ClRecv(4) :
        LET data == Take(net.s2c, o.k)
            good == o.kind = "data" /\ Len(data) = 4
            read == ClRead(4, o)
        IN  /\ cl' = IF ~good THEN ClFail(read)
                     ELSE [read EXCEPT !.name_length = DecU32BE(data), !.pc = "recv_name"]
            /\ net' = NetCRecv(o.k)
    /\ UNCHANGED <<sv, byteorder, conns, srv>>

\* desktop_name = sock.recv(name_length).decode('utf-8')
ClientRecvName ==
    /\ cl.pc = "recv_name"
    /\ \E o \in ClRecv(cl.name_length) :
        LET data == Take(net.s2c, o.k)
            good == o.kind = "data" /\ Utf8Ok(data)
            read == ClRead(cl.name_length, o)
        IN  /\ cl' = IF ~good THEN ClFail(read)
                     ELSE [read EXCEPT !.desktop_name = data, !.pc = "send_fb_update_request"]
            /\ net' = NetCRecv(o.k)
    /\ UNCHANGED <<sv, byteorder, conns, srv>>

\* Step 8
ClientSendFbUpdateRequest ==
    ClientSend("send_fb_update_request", FbUpdateRequestMsg(cl.width, cl.height),
               "recv_response")

\* settimeout(2.0); response = sock.recv(4): a timeout is caught and passed over,
\* any other exception returns False
ClientRecvResponse ==
    /\ cl.pc = "recv_response"
    /\ \E o \in ClRecv(4) :
        LET data == Take(net.s2c, o.k)
            read == IF o.kind = "data" THEN [ClRead(4, o) EXCEPT !.response = data]
                    ELSE ClRead(4, o)
        IN  /\ cl' = IF o.kind = "error" THEN ClFail(read) ELSE [read EXCEPT !.pc = "close"]
            /\ net' = NetCRecv(o.k)
    /\ UNCHANGED <<sv, byteorder, conns, srv>>

\* sock.close(); return True
ClientClose ==
    /\ cl.pc = "close"
    /\ cl' = [cl EXCEPT !.pc = "done", !.ret = "True"]
    /\ net' = NetCClose(net)
    /\ UNCHANGED <<sv, byteorder, conns, srv>>

\* after return False the socket object is unreferenced: the interpreter closes it
\* when it collects it, which the language does not date
ClientSockFinalize ==
    /\ cl.pc = "done"
    /\ net.connected
    /\ ~net.cclosed
    /\ net' = NetCClose(net)
    /\ UNCHANGED <<cl, sv, byteorder, conns, srv>>

(***************************** scripted peers ******************************)
\* what a peer that is not the repository's own may put on the wire, cut at any byte
Prefixes(S) == UNION {{Take(s, k) : k \in 0..Len(s)} : s \in S}

\* b"RFB 003.003\n"
Version33 == <<82, 70, 66, 32, 48, 48, 51, 46, 48, 48, 51, 10>>

\* "  RFB 003.8\n"
PaddedVersion == <<32, 32, 82, 70, 66, 32, 48, 48, 51, 46, 56, 10>>

\* 12-byte greetings: 3.8, 3.3, 4.0, "RFB 003.zz!!", "  RFB 003.8\n", a non-ASCII one
ServerVersions ==
    {RFB_VERSION, Version33,
     <<82, 70, 66, 32, 48, 48, 52, 46, 48, 48, 48, 10>>,
     <<82, 70, 66, 32, 48, 48, 51, 46, 122, 122, 33, 33>>,
     PaddedVersion,
     <<82, 70, 66, 32, 48, 48, 51, 46, 48, 48, 56, 200>>}

\* None and VNC authentication
SecTypes == {1, 2}

ReasonText(L) == [i \in 1..L |-> 110]

\* length(4) + text, and what may follow it on the wire
ReasonMsgs == {U32BE(L) \o ReasonText(L) \o x : L \in 0..MaxReason, x \in {<<>>, <<7>>}}

\* count(1) + types, count = 0 followed by a reason
SecurityOffers ==
    {<<0>> \o r : r \in ReasonMsgs}
    \cup UNION {{<<n>> \o t : t \in [1..n -> SecTypes]} : n \in 1..MaxTypes}

\* 0, or 1 followed by a reason
SecurityResults == {U32BE(0)} \cup {U32BE(1) \o r : r \in ReasonMsgs}

\* desktop names: the server's, none, "AB", and two that begin with four bytes
\* that read as a length
ServerNames == {DesktopName, <<>>, <<65, 66>>, <<0, 0, 0, 0, 65>>, <<0, 0, 0, 2, 65, 66, 67>>}

ServerStreams(order) ==
    {v \o SecurityTypesMsg : v \in ServerVersions}
    \cup {RFB_VERSION \o o \o SecurityResultMsg : o \in SecurityOffers}
    \cup {RFB_VERSION \o SecurityTypesMsg \o r : r \in SecurityResults}
    \cup {RFB_VERSION \o SecurityTypesMsg \o SecurityResultMsg
            \o ServerInitMsg(ServerWidth, ServerHeight, order, n) \o t :
            n \in ServerNames, t \in {<<>>, FbUpdateMsg}}
    \cup {PaddedVersion \o SecurityTypesMsg \o SecurityResultMsg
            \o ServerInitMsg(ServerWidth, ServerHeight, order, DesktopName)}

\* FramebufferUpdateRequest, KeyEvent, PointerEvent at (3, 3), and an unknown tag
ClientMessages ==
    {FbUpdateRequestMsg(ServerWidth, ServerHeight),
     <<4, 1, 0, 0, 0, 0, 0, 97>>,
     <<5, 0, 0, 3, 0, 3>>,
     <<9>>}

RECURSIVE MessageSeqs(_)
MessageSeqs(n) ==
    IF n = 0 THEN {<<>>}
    ELSE MessageSeqs(n - 1) \cup {s \o m : s \in MessageSeqs(n - 1), m \in ClientMessages}

\* what a client that follows the protocol sends in the handshake, as one stream
ClientHandshakeStream == RFB_VERSION \o <<SECURITY_NONE>> \o <<1>>

ClientHandshakes ==
    {v \o <<1>> \o <<1>> : v \in {RFB_VERSION, Version33}}
    \cup {RFB_VERSION \o <<t>> \o <<1>> : t \in SecTypes}
    \cup {RFB_VERSION \o <<1>> \o <<f>> : f \in {0, 1, 255}}

ClientStreams ==
    Prefixes(ClientHandshakes)
    \cup {RFB_VERSION \o <<1>> \o <<1>> \o m : m \in MessageSeqs(MaxMsgs)}

\* what the clients of the simultaneous connections send: nothing, a cut
\* version, the handshake, the handshake and a FramebufferUpdateRequest
PoolScripts ==
    {<<>>, <<82>>, ClientHandshakeStream,
     ClientHandshakeStream \o FbUpdateRequestMsg(ServerWidth, ServerHeight)}

(***************************** specifications ******************************)
NoBytes == <<>>

\* a connection of the listening server: its client connected and sent `script`
PoolConn(script, closed) ==
    [pc |-> "backlog", sent |-> <<>>, c2s |-> script, script |-> script,
     cclosed |-> closed, closed |-> FALSE, rst |-> FALSE, stuck |-> FALSE]

\* no server with several clients runs
PoolOff ==
    /\ conns = [c \in Conns |-> [PoolConn(NoBytes, FALSE) EXCEPT !.pc = "off"]]
    /\ srv = [running |-> FALSE, lclosed |-> FALSE, clients |-> {}]

ClInit ==
    [pc |-> "connect", ret |-> "none", sent |-> <<>>, reads |-> <<>>,
     server_version |-> NoBytes, num_types |-> -1, security_types |-> <<>>,
     security_result |-> -1, reason_length |-> -1, reason |-> NoBytes,
     server_init |-> NoBytes, width |-> -1, height |-> -1,
     bits_per_pixel |-> -1, depth |-> -1, big_endian |-> -1, true_color |-> -1,
     red_max |-> -1, green_max |-> -1, blue_max |-> -1,
     red_shift |-> -1, green_shift |-> -1, blue_shift |-> -1,
     name_length |-> -1, desktop_name |-> NoBytes, response |-> NoBytes]

SvInit ==
    [pc |-> "accept", sent |-> <<>>, reads |-> <<>>, client_version |-> NoBytes,
     selected |-> -1, shared_flag |-> -1, data |-> NoBytes, idle |-> 0]

NetInit ==
    [c2s |-> <<>>, s2c |-> <<>>, cclosed |-> FALSE, sclosed |-> FALSE,
     crst |-> FALSE, srst |-> FALSE, listening |-> TRUE, connected |-> FALSE,
     script |-> <<>>]

\* the client against the mock server
InitBoth ==
    /\ PoolOff
    /\ cl = ClInit
    /\ sv = SvInit
    /\ net = NetInit
    /\ byteorder \in {"little", "big"}

\* the client against a scripted server, or against no server at all
InitClient ==
    /\ PoolOff
    /\ cl = ClInit
    /\ sv = [SvInit EXCEPT !.pc = "absent"]
    /\ byteorder \in {"little", "big"}
    /\ \/ net = [NetInit EXCEPT !.listening = FALSE]
       \/ \E f \in Prefixes(ServerStreams(byteorder)), closed \in BOOLEAN :
            net = [NetInit EXCEPT !.s2c = f, !.script = f, !.sclosed = closed]

\* the mock server against a scripted client
InitServer ==
    /\ PoolOff
    /\ cl = [ClInit EXCEPT !.pc = "absent"]
    /\ sv = SvInit
    /\ byteorder \in {"little", "big"}
    /\ \E f \in ClientStreams, closed \in BOOLEAN :
        net = [NetInit EXCEPT !.connected = TRUE, !.c2s = f, !.script = f, !.cclosed = closed]

\* the mock server with two clients that have connected
InitPool ==
    /\ cl = [ClInit EXCEPT !.pc = "absent"]
    /\ sv = [SvInit EXCEPT !.pc = "absent"]
    /\ net = NetInit
    /\ byteorder \in {"little", "big"}
    /\ conns \in [Conns -> {PoolConn(f, closed) : f \in PoolScripts, closed \in BOOLEAN}]
    /\ srv = [running |-> TRUE, lclosed |-> FALSE, clients |-> {}]

NextClient ==
    \/ ClientConnect
    \/ ClientRecvVersion
    \/ ClientSendVersion
    \/ ClientRecvNumTypes
    \/ ClientRecvFailReasonLength
    \/ ClientRecvFailReason
    \/ ClientRecvSecType
    \/ ClientSendSelection
    \/ ClientRecvSecurityResult
    \/ ClientRecvResultReasonLength
    \/ ClientRecvResultReason
    \/ ClientSendClientInit
    \/ ClientRecvServerInit
    \/ ClientRecvNameLength
    \/ ClientRecvName
    \/ ClientSendFbUpdateRequest
    \/ ClientRecvResponse
    \/ ClientClose
    \/ ClientSockFinalize

NextServer ==
    \/ ServerAccept
    \/ ServerSendVersion
    \/ ServerRecvVersion
    \/ ServerSendSecurityTypes
    \/ ServerRecvSelection
    \/ ServerSendSecurityResult
    \/ ServerRecvClientInit
    \/ ServerSendServerInit
    \/ ServerSessionRecv
    \/ ServerSendFbUpdate

NextPool ==
    \/ \E c \in Conns :
        \/ PoolAccept(c)
        \/ PoolSendVersion(c)
        \/ PoolRecvVersion(c)
        \/ PoolSendSecurityTypes(c)
        \/ PoolRecvSelection(c)
        \/ PoolSendSecurityResult(c)
        \/ PoolRecvClientInit(c)
        \/ PoolSendServerInit(c)
        \/ PoolSessionRecv(c)
        \/ PoolSendFbUpdate(c)
    \/ PoolStop

\* a run is the client against the mock server, either of them against a
\* scripted peer, or the mock server with two scripted clients
Init == InitBoth \/ InitClient \/ InitServer \/ InitPool

Next == NextClient \/ NextServer \/ NextPool

Spec == Init /\ [][Next]_vars

SpecClient == InitClient /\ [][NextClient]_vars

SpecServer == InitServer /\ [][NextServer]_vars

(***************************** properties **********************************)
ClientRuns == cl.pc # "absent"

ServerRuns == sv.pc # "absent"

BothRun == ClientRuns /\ ServerRuns

\* the four handshake messages of the server, in the order of Steps 1, 3, 5, 7
ServerHandshakeSends ==
    <<RFB_VERSION, SecurityTypesMsg, SecurityResultMsg,
      ServerInitMsg(ServerWidth, ServerHeight, byteorder, DesktopName)>>

\* the lengths of the client messages of Steps 2, 4, 6
ServerHandshakeReads == <<12, 1, 1>>

\* C1: on every connection the server's sends are, in this order, the 12-byte
\* version, the security offer, the security result and ServerInit (then only
\* FramebufferUpdates), and the i-th of them is sent only when the (i-1)-th client
\* message (12, 1, 1 bytes) was received with exactly its length.
C1_ServerSendOrder ==
    ServerRuns =>
        /\ \A i \in 1..Len(sv.sent) :
            sv.sent[i] = IF i <= 4 THEN ServerHandshakeSends[i] ELSE FbUpdateMsg
        /\ \A i \in 2..Len(sv.sent) :
            i <= 4 => /\ Len(sv.reads) >= i - 1
                      /\ sv.reads[i - 1] = <<ServerHandshakeReads[i - 1],
                                             ServerHandshakeReads[i - 1]>>
        /\ Len(sv.reads) <= Len(sv.sent)

\* a server that was sent a whole handshake and has sent ServerInit
C1_Witness == ServerRuns /\ ~ClientRuns /\ Len(sv.sent) >= 4 /\ Len(sv.reads) = 3

\* the name length that ServerInit declares at bytes 20..23
DeclaredNameLength == DecU32BE(SubSeq(cl.server_init, 21, 24))

\* C2: the client sends the version echo only after a 12-byte version, the
\* selection only after a non-empty offer, ClientInit only after a 4-byte result
\* equal to 0, and FramebufferUpdateRequest only after all 24+M bytes of ServerInit
\* were received; the four sends occur in that order.
C2_ClientSendOrder ==
    ClientRuns =>
        /\ Len(cl.sent) <= 4
        /\ Len(cl.sent) >= 1 => Len(cl.server_version) = 12 /\ cl.sent[1] = cl.server_version
        /\ Len(cl.sent) >= 2 => /\ cl.sent[2] = <<1>>
                                /\ cl.num_types > 0
                                /\ Len(cl.security_types) = cl.num_types
        /\ Len(cl.sent) >= 3 => cl.sent[3] = <<1>> /\ cl.security_result = 0
        /\ Len(cl.sent) >= 4 =>
            /\ cl.sent[4] = FbUpdateRequestMsg(cl.width, cl.height)
            /\ Len(cl.server_init) = 24
            /\ 24 + 4 + Len(cl.desktop_name) >= 24 + DeclaredNameLength

\* the client is past Step 7
ClientPastServerInit ==
    cl.pc \in {"send_fb_update_request", "recv_response", "close"} \/ cl.ret = "True"

\* C3: a client that completes the handshake with the mock server holds the
\* width, the height and the desktop name of the ServerInit the server sent.
C3_ClientHoldsServerInit ==
    (BothRun /\ ClientPastServerInit) =>
        /\ Len(sv.sent) >= 4
        /\ sv.sent[4] = ServerInitMsg(cl.width, cl.height, byteorder, cl.desktop_name)

\* C4: the redMax, greenMax and blueMax the client decodes from the mock server's
\* ServerInit are the 255, 255, 255 the server packed, on every host byte order.
C4_PixelMaxRoundTrip ==
    (BothRun /\ Len(cl.server_init) = 24) =>
        cl.red_max = 255 /\ cl.green_max = 255 /\ cl.blue_max = 255

\* both ends are in a recv and nothing is in flight in either direction
BothWait ==
    /\ cl.pc \in CRecvPcs /\ sv.pc \in SRecvPcs
    /\ net.c2s = <<>> /\ net.s2c = <<>> /\ ~net.cclosed /\ ~net.sclosed

\* C5: client against mock server: the run never ends otherwise than with the
\* server past ServerInit and the client returning True, and the two never both wait.
C5_HandshakeCompletes ==
    BothRun =>
        /\ cl.pc = "done" => cl.ret = "True"
        /\ sv.pc = "done" => Len(sv.sent) >= 4
        /\ ~BothWait

\* the scripted server sent what the mock server sends, up to a cut inside
\* ServerInit, and closed
CutInServerInit ==
    /\ ClientRuns /\ ~ServerRuns /\ net.sclosed
    /\ LET before == RFB_VERSION \o SecurityTypesMsg \o SecurityResultMsg
           whole == before \o ServerHandshakeSends[4]
       IN  /\ Len(before) <= Len(net.script) /\ Len(net.script) < Len(whole)
           /\ net.script = Take(whole, Len(net.script))

\* C6: when the transport closes before all 24+M bytes of ServerInit were
\* delivered, at whatever offset, the client returns False, and it is never left
\* waiting.
C6_TruncatedServerInitFails ==
    CutInServerInit =>
        /\ cl.pc = "done" => cl.ret = "False"
        /\ cl.pc \in CRecvPcs => ClRecv(1) # {}

\* C7: a handshake read of the server that returns fewer bytes than required
\* (0 at end of stream included) is the handler's last: it has sent only the
\* messages before that read, it is not in the session loop, its socket is closed.
C7_ServerShortReadCloses ==
    ServerRuns =>
        \A i \in 1..Len(sv.reads) :
            (sv.reads[i][2] >= 0 /\ sv.reads[i][2] < sv.reads[i][1]) =>
                /\ i = Len(sv.reads)
                /\ Len(sv.sent) = i
                /\ sv.pc = "done"
                /\ net.sclosed

\* a server whose read of ClientInit came back empty
C7_Witness ==
    ServerRuns /\ Len(sv.reads) = 3 /\ sv.reads[3] = <<1, 0>> /\ sv.pc = "done"

\* C8: a client that returns False on an established connection has closed its socket.
C8_ClientClosesOnFailure ==
    (ClientRuns /\ cl.pc = "done" /\ cl.ret = "False" /\ net.connected) => net.cclosed

OfferRead == cl.num_types > 0 /\ Len(cl.security_types) = cl.num_types

\* C10: after a non-empty offer without type 1 the client has returned False and
\* has sent nothing but the version echo.
C10_NoneNotOfferedFails ==
    (ClientRuns /\ OfferRead /\ \A i \in 1..Len(cl.security_types) : cl.security_types[i] # 1) =>
        /\ cl.pc = "done"
        /\ cl.ret = "False"
        /\ cl.sent = <<cl.server_version>>

\* a client that was offered only VNC authentication
C10_Witness == ClientRuns /\ cl.security_types = <<2>> /\ cl.num_types = 1 /\ cl.pc = "done"

\* the sendall of the next message raised: the connection was reset under the client
SendRaised(n) == cl.pc = "done" /\ cl.ret = "False" /\ Len(cl.sent) = n /\ net.crst

\* C11: once the client read an offer in full in which type 1 occurs, at whatever
\* position, it sends one selection byte and that byte is 1 (unless the sendall
\* itself raises); the selection is the only message of Step 4 and is a type of
\* the offer the client read.
C11_SelectsNone ==
    ClientRuns =>
        /\ (OfferRead /\ \E i \in 1..Len(cl.security_types) : cl.security_types[i] = 1) =>
            \/ cl.pc = "send_selection" /\ Len(cl.sent) = 1
            \/ Len(cl.sent) >= 2 /\ cl.sent[2] = <<1>>
            \/ SendRaised(1)
        /\ Len(cl.sent) >= 2 =>
            /\ Len(cl.sent[2]) = 1
            /\ OfferRead
            /\ \E i \in 1..Len(cl.security_types) : cl.security_types[i] = cl.sent[2][1]

\* a client that was offered VNC authentication and None, in this order, and selected
C11_Witness ==
    ClientRuns /\ cl.security_types = <<2, 1>> /\ Len(cl.sent) >= 2 /\ cl.sent[2] = <<1>>

\* C12: after a security result of 0 the client goes on to send ClientInit (unless
\* the sendall itself raises); after any other result it returns False and has
\* sent neither ClientInit nor anything after it.
C12_ResultDecides ==
    ClientRuns =>
        /\ cl.security_result = 0 =>
            \/ cl.pc = "send_client_init" /\ Len(cl.sent) = 2
            \/ Len(cl.sent) >= 3 /\ cl.sent[3] = <<1>>
            \/ SendRaised(2)
        /\ cl.security_result > 0 =>
            /\ Len(cl.sent) = 2
            /\ cl.pc \in {"recv_result_reason_length", "recv_result_reason", "done"}
            /\ cl.pc = "done" => cl.ret = "False"

\* a client that read a nonzero security result and returned
C12_Witness == ClientRuns /\ cl.security_result > 0 /\ cl.pc = "done" /\ cl.ret = "False"

\* the scripted server refused with a result of 1 and sent a whole reason of L bytes
ReasonOnWire(L) ==
    \E x \in {<<>>, <<7>>} :
        net.script = RFB_VERSION \o SecurityTypesMsg \o U32BE(1) \o U32BE(L) \o ReasonText(L) \o x

\* C13: a client that was sent a nonzero result and a reason of declared length L,
\* and read the length, has consumed all L reason bytes when it returns, in however
\* many transport reads they arrive, and no byte after them.
C13_ReasonConsumed ==
    \A L \in 0..MaxReason :
        (/\ ClientRuns /\ ReasonOnWire(L)
         /\ cl.security_result > 0 /\ cl.reason_length = L /\ cl.pc = "done") =>
            /\ Len(cl.reads) = 6
            /\ cl.reads[6][1] = L
            /\ cl.reads[6][2] \in {L, -1}
            /\ Len(cl.reason) \in {L, 0}

\* the scripted server sent the version, a count N > 0 and fewer than N type bytes
TruncatedOffer ==
    /\ Len(net.script) >= 13
    /\ Take(net.script, 12) = RFB_VERSION
    /\ net.script[13] > 0
    /\ Len(net.script) - 13 < net.script[13]

\* C14: when the server sent a count N > 0 and fewer than N type bytes, and then
\* closes or stays silent, the client holds no type the server did not deliver,
\* has sent no selection, can always take its next step, and returns False.
C14_TruncatedOfferFails ==
    (ClientRuns /\ TruncatedOffer) =>
        /\ Len(cl.sent) <= 1
        /\ Len(cl.security_types) <= Len(net.script) - 13
        /\ \A i \in 1..Len(cl.security_types) : cl.security_types[i] = net.script[13 + i]
        /\ cl.pc = "done" => cl.ret = "False"
        /\ cl.pc # "done" => ENABLED NextClient

\* a client that was promised two types, was sent type 1 alone, and returned
C14_Witness ==
    /\ ClientRuns /\ TruncatedOffer
    /\ cl.num_types = 2 /\ cl.security_types = <<1>> /\ cl.pc = "done"

\* C15: a server that read a 12-byte version reply other than RFB_VERSION does not
\* go on with the handshake: it never sends the security offer, nor anything else
\* after its own version.
C15_VersionMismatchFails ==
    (ServerRuns /\ Len(sv.client_version) = 12 /\ sv.client_version # RFB_VERSION) =>
        sv.sent = <<RFB_VERSION>>

\* C16: a server that read a selection byte other than the type 1 it offered does
\* not go on with the handshake: it never sends the security result nor ServerInit.
C16_UnofferedSelectionFails ==
    (ServerRuns /\ sv.selected # -1 /\ sv.selected # SECURITY_NONE) =>
        sv.sent = <<RFB_VERSION, SecurityTypesMsg>>

\* the position of a step of test_vnc_handshake in its step sequence
ClientRank(pc) ==
    CASE pc = "absent" -> 0
      [] pc = "connect" -> 0
      [] pc = "recv_version" -> 1
      [] pc = "send_version" -> 2
      [] pc = "recv_num_types" -> 3
      [] pc \in {"recv_fail_reason_length", "recv_sec_type"} -> 4
      [] pc \in {"recv_fail_reason", "send_selection"} -> 5
      [] pc = "recv_security_result" -> 6
      [] pc \in {"recv_result_reason_length", "send_client_init"} -> 7
      [] pc \in {"recv_result_reason", "recv_server_init"} -> 8
      [] pc = "recv_name_length" -> 9
      [] pc = "recv_name" -> 10
      [] pc = "send_fb_update_request" -> 11
      [] pc = "recv_response" -> 12
      [] pc = "close" -> 13
      [] pc = "done" -> 14

\* the position of a step of handle_client in its step sequence; the session
\* loop is one position
ServerRank(pc) ==
    CASE pc = "absent" -> 0
      [] pc = "accept" -> 0
      [] pc = "send_version" -> 1
      [] pc = "recv_version" -> 2
      [] pc = "send_security_types" -> 3
      [] pc = "recv_selection" -> 4
      [] pc = "send_security_result" -> 5
      [] pc = "recv_client_init" -> 6
      [] pc = "send_server_init" -> 7
      [] pc \in {"session", "send_fb_update"} -> 8
      [] pc = "done" -> 9

\* C17: in both roles every step moves the handshake forward in its step sequence
\* or to the end; a role that has ended (failed or finished) sends and receives
\* nothing more, and a role past the handshake never returns to a handshake step.
C17_ForwardOnly ==
    [][/\ ClientRank(cl'.pc) >= ClientRank(cl.pc)
       /\ ServerRank(sv'.pc) >= ServerRank(sv.pc)
       /\ cl.pc = "done" => cl'.sent = cl.sent /\ cl'.reads = cl.reads /\ cl'.pc = "done"
       /\ sv.pc = "done" => sv'.sent = sv.sent /\ sv'.reads = sv.reads /\ sv'.pc = "done"
       /\ cl.pc = "done" => Len(net'.c2s) <= Len(net.c2s)
       /\ sv.pc = "done" => Len(net'.s2c) <= Len(net.s2c)]_vars

\* a client that failed and a server that then found the connection closed
C17_Witness ==
    BothRun /\ cl.pc = "done" /\ cl.ret = "False" /\ sv.pc = "done" /\ Len(sv.sent) >= 1

\* the server has sent ServerInit: the handshake is over on its side
ServerEstablished == Len(sv.sent) >= 4

\* C18: between the client and the mock server, until both are past the
\* handshake, at most one direction holds bytes in flight, and the sends
\* alternate: the server has sent as many messages as the client or one more.
C18_HalfDuplex ==
    (BothRun /\ ~(ServerEstablished /\ ClientPastServerInit)) =>
        /\ net.c2s = <<>> \/ net.s2c = <<>>
        /\ Len(cl.sent) <= Len(sv.sent)
        /\ Len(sv.sent) <= Len(cl.sent) + 1

\* ClientInit is in flight and the server has not yet answered it
C18_Witness ==
    BothRun /\ Len(cl.sent) = 3 /\ net.c2s = <<1>> /\ Len(sv.sent) = 3 /\ net.s2c = <<>>

\* the handshake reads of handle_client
ServerHandshakeRecvPcs == {"recv_version", "recv_selection", "recv_client_init"}

\* C19: a server in a handshake read whose client stays silent on an open
\* connection is not blocked: the read ends (with a timeout), so the handler can
\* always take a next step and never waits indefinitely.
C19_ServerReadBounded ==
    (/\ ServerRuns /\ sv.pc \in ServerHandshakeRecvPcs
     /\ ClientSilent /\ net.c2s = <<>> /\ ~net.cclosed /\ ~net.srst) =>
        ENABLED NextServer

\* everything the mock server sends in a handshake, as one stream
ServerHandshakeStream ==
    ServerHandshakeSends[1] \o ServerHandshakeSends[2]
        \o ServerHandshakeSends[3] \o ServerHandshakeSends[4]

\* the scripted server stopped sending before the end of its handshake and keeps
\* the connection open
ServerStalls ==
    /\ ClientRuns /\ ~ServerRuns /\ net.listening /\ ~net.sclosed
    /\ Len(net.script) < Len(ServerHandshakeStream)
    /\ net.script = Take(ServerHandshakeStream, Len(net.script))

\* C20: when the server stops sending at some point of the handshake and keeps
\* the connection open, every read of the client ends, so the client can always
\* take a next step, and the client never returns True.
C20_StalledServerFails ==
    ServerStalls =>
        /\ cl.pc # "done" => ENABLED NextClient
        /\ cl.ret # "True"

\* the scripted client completed the handshake; what it sent after it
SessionBytes == Drop(net.script, Len(ClientHandshakeStream))

ScriptedSession ==
    /\ ServerRuns /\ ~ClientRuns
    /\ Len(net.script) >= Len(ClientHandshakeStream)
    /\ Take(net.script, Len(ClientHandshakeStream)) = ClientHandshakeStream

\* the length of the client message with this tag (0: not a tag of the scripts)
MsgLen(tag) == IF tag = 3 THEN 10 ELSE IF tag = 4 THEN 8 ELSE IF tag = 5 THEN 6 ELSE 0

\* the bytes are a sequence of whole FramebufferUpdateRequest, KeyEvent and
\* PointerEvent messages
RECURSIVE WellFramed(_)
WellFramed(b) ==
    \/ b = <<>>
    \/ /\ MsgLen(b[1]) > 0
       /\ Len(b) >= MsgLen(b[1])
       /\ WellFramed(Drop(b, MsgLen(b[1])))

\* the number of FramebufferUpdateRequest messages in a well-framed stream
RECURSIVE Requests(_)
Requests(b) ==
    IF b = <<>> THEN 0
    ELSE (IF b[1] = 3 THEN 1 ELSE 0) + Requests(Drop(b, MsgLen(b[1])))

\* C21: once the server has read everything a client sent after the handshake, it
\* has sent one 4-byte FramebufferUpdate with 0 rectangles per
\* FramebufferUpdateRequest of the client, however the reads grouped the bytes.
C21_OneUpdatePerRequest ==
    (/\ ScriptedSession /\ WellFramed(SessionBytes)
     /\ Len(sv.sent) >= 4 /\ net.c2s = <<>> /\ sv.pc \in {"session", "done"}
     /\ ~net.srst) =>
        /\ Len(sv.sent) = 4 + Requests(SessionBytes)
        /\ \A i \in 5..Len(sv.sent) : sv.sent[i] = FbUpdateMsg

\* C22: on a connection the client keeps open the session loop does not end, the
\* answer to a FramebufferUpdateRequest included, and for KeyEvent and
\* PointerEvent messages the server sends nothing.
C22_EventsUnanswered ==
    (ScriptedSession /\ WellFramed(SessionBytes) /\ Len(sv.sent) >= 4) =>
        /\ ~net.cclosed => sv.pc # "done"
        /\ Requests(SessionBytes) = 0 => Len(sv.sent) = 4

\* the server is in its session loop, or at the send inside it
InSession(pc) == pc \in {"session", "send_fb_update"}

\* C23: a server in its session loop that reads the end of the client's stream
\* leaves the loop, sends nothing further and closes its socket; the loop is left
\* in no other way than after a close by the client.
C23_SessionEndsAtClose ==
    [][/\ (sv.pc = "session" /\ net.cclosed /\ net.c2s = <<>> /\ sv' # sv) =>
            sv'.pc = "done" /\ sv'.sent = sv.sent /\ net'.sclosed
       /\ (InSession(sv.pc) /\ ~InSession(sv'.pc)) =>
            sv'.pc = "done" /\ net.cclosed /\ net'.sclosed /\ sv'.sent = sv.sent]_vars

\* a server that answered a request and then read the end of the stream
C23_Witness == ServerRuns /\ sv.pc = "done" /\ Len(sv.sent) >= 5 /\ net.sclosed /\ ~net.srst

\* the scripted client completed the handshake and then sent the unknown tag 9
UnknownTagSent ==
    /\ ScriptedSession
    /\ SessionBytes # <<>> /\ SessionBytes[1] = 9

\* C24: a server that read a message with an unknown tag after the handshake has
\* left the session loop and closed the connection.
C24_UnknownTagFatal ==
    (UnknownTagSent /\ Len(sv.sent) >= 4 /\ Len(net.c2s) < Len(SessionBytes)) =>
        sv.pc = "done" /\ net.sclosed

\* the 12 bytes the server put on the wire as its version
VersionOnWire == IF ServerRuns THEN sv.sent[1] ELSE Take(net.script, 12)

\* C28: the first message of the client is, byte for byte, the 12-byte version
\* the server sent, whichever accepted version that is.
C28_VersionEchoed ==
    (ClientRuns /\ Len(cl.sent) >= 1) => cl.sent[1] = VersionOnWire

\* a client that echoed version 3.3
C28_Witness == ClientRuns /\ ~ServerRuns /\ Len(cl.sent) >= 1 /\ cl.sent[1] = Version33

IsDigit(c) == c >= 48 /\ c <= 57

\* "RFB xxx.yyy\n" with digits x and y
WellFormedVersion(v) ==
    /\ Len(v) = 12
    /\ Take(v, 4) = <<82, 70, 66, 32>>
    /\ \A i \in {5, 6, 7, 9, 10, 11} : IsDigit(v[i])
    /\ v[8] = 46
    /\ v[12] = 10

\* C29: a client that read a 12-byte greeting that is not a well-formed version
\* string sends nothing, neither the echo nor anything later, and does not pass.
C29_MalformedVersionFatal ==
    (/\ ClientRuns /\ ~ServerRuns
     /\ Len(cl.server_version) = 12 /\ ~WellFormedVersion(cl.server_version)) =>
        cl.sent = <<>> /\ cl.ret # "True"

\* C30: a client that returned True has received a response to its
\* FramebufferUpdateRequest, and the response is a FramebufferUpdate (type 0).
C30_PassMeansResponse ==
    (ClientRuns /\ cl.ret = "True") => cl.response # <<>> /\ cl.response[1] = 0

\* the server with two clients runs
PoolRuns == \E c \in Conns : conns[c].pc # "off"

\* C25: the step in which the handler of one connection ends changes nothing of
\* any other connection (its step, its socket, its bytes), leaves running and the
\* listening socket as they are, and while the server runs a connection in the
\* backlog can be accepted whatever became of the others.
C25_FailureIsLocal ==
    [][\A c \in Conns :
        /\ (conns[c].pc # "done" /\ conns'[c].pc = "done") =>
            /\ srv' = srv
            /\ \A d \in Conns \ {c} : conns'[d] = conns[d]
        /\ (srv.running /\ conns[c].pc = "backlog") => ENABLED PoolAccept(c)]_vars

\* one connection failed at its version read, the other is in its session, and
\* the server still runs
C25_Witness ==
    /\ srv.running
    /\ conns["a"].pc = "done" /\ Len(conns["a"].sent) = 1
    /\ conns["b"].pc = "session"

\* the handler of connection d waits in a read for a client that sends nothing
PoolBlocked(d) ==
    /\ conns[d].pc \in PoolHandshakeRecvPcs \cup {"session"}
    /\ conns[d].c2s = <<>> /\ ~conns[d].cclosed /\ ~conns[d].closed

\* the client of connection c sends the handshake, as the protocol has it, and
\* keeps the connection open
FollowsProtocol(c) ==
    /\ conns[c].pc # "off"
    /\ Len(conns[c].script) >= Len(ClientHandshakeStream)
    /\ Take(conns[c].script, Len(ClientHandshakeStream)) = ClientHandshakeStream
    /\ ~conns[c].cclosed

\* the sends of connection c are, in this order, the four handshake messages and
\* then FramebufferUpdates
PoolSendsInOrder(c) ==
    \A i \in 1..Len(conns[c].sent) :
        conns[c].sent[i] = IF i <= 4 THEN ServerHandshakeSends[i] ELSE FbUpdateMsg

\* some step of connection c, its accept included, can be taken
PoolCanStep(c) ==
    \/ ENABLED PoolAccept(c)
    \/ ENABLED PoolSendVersion(c) \/ ENABLED PoolRecvVersion(c)
    \/ ENABLED PoolSendSecurityTypes(c) \/ ENABLED PoolRecvSelection(c)
    \/ ENABLED PoolSendSecurityResult(c) \/ ENABLED PoolRecvClientInit(c)
    \/ ENABLED PoolSendServerInit(c)

\* C26: while the handler of one connection is blocked, the other connection,
\* whose client follows the protocol, sends its bytes in protocol order, its
\* handler is never itself blocked or ended before ServerInit is sent, and so it
\* completes its handshake.
C26_ConnectionsIndependent ==
    \A c \in Conns : \A d \in Conns \ {c} :
        (srv.running /\ PoolBlocked(d) /\ FollowsProtocol(c)) =>
            /\ PoolSendsInOrder(c)
            /\ Len(conns[c].sent) < 4 => PoolCanStep(c)

\* some step of the handler of connection c can be taken
PoolCanRun(c) ==
    PoolCanStep(c) \/ ENABLED PoolSessionRecv(c) \/ ENABLED PoolSendFbUpdate(c)

\* C27: after stop() every handler that has not ended can take a step (which ends
\* it): no handler stays blocked on a socket that stop() closed.
C27_StopUnblocksHandlers ==
    (~srv.running /\ srv.lclosed) =>
        \A c \in srv.clients : conns[c].pc # "done" => PoolCanRun(c)

\* C31: a client that returned True received a 12-byte version beginning
\* "RFB 003.", read a non-empty offer containing type 1 and a security result of
\* 0, and read 24 bytes of ServerInit and the 4 bytes of a name length; a client
\* that ended in any other way returned False.
C31_PassMeansHandshake ==
    (ClientRuns /\ cl.pc = "done") =>
        /\ cl.ret \in {"True", "False"}
        /\ cl.ret = "True" =>
            /\ Len(cl.server_version) = 12
            /\ StartsWith(cl.server_version, VersionPrefix)
            /\ OfferRead
            /\ \E i \in 1..Len(cl.security_types) : cl.security_types[i] = 1
            /\ cl.security_result = 0
            /\ Len(cl.server_init) = 24
            /\ cl.name_length >= 0

\* C32: for a client that sends whole messages after the handshake, however the
\* reads split them, the server has sent no more FramebufferUpdates than the
\* client sent FramebufferUpdateRequests: none without a request that caused it.
C32_NoUnrequestedUpdate ==
    (ScriptedSession /\ WellFramed(SessionBytes)) =>
        Len(sv.sent) <= 4 + Requests(SessionBytes)

\* the scripted server sent the whole handshake with a well-formed ServerInit of
\* 24+M bytes, nothing after it, and keeps the connection open
WellFormedServerInitSent ==
    /\ ClientRuns /\ ~ServerRuns /\ ~net.sclosed
    /\ \E n \in ServerNames :
        net.script = RFB_VERSION \o SecurityTypesMsg \o SecurityResultMsg
                        \o ServerInitMsg(ServerWidth, ServerHeight, byteorder, n)

\* C33: a client that was sent a well-formed ServerInit of 24+M bytes, whatever
\* M is, and got the first 24 bytes of it in one read, ends with True: it neither
\* fails on a short read nor runs into a timeout for bytes that do not come.
C33_AnyNameLengthPasses ==
    (WellFormedServerInitSent /\ Len(cl.server_init) = 24 /\ cl.pc = "done") =>
        cl.ret = "True"

\* bytes i..j of a message, counted from 1
Slice(b, i, j) == Take(Drop(b, i - 1), j - i + 1)

\* the layout of a ServerInit of 24+M bytes, written out byte by byte
ServerInitLayout(m) ==
    /\ Len(m) >= 24
    /\ DecU16BE(Slice(m, 1, 2)) = 1024
    /\ DecU16BE(Slice(m, 3, 4)) = 768
    /\ Slice(m, 5, 8) = <<32, 24, 0, 1>>
    /\ \A k \in {9, 11, 13} : Slice(m, k, k + 1) \in {<<0, 255>>, <<255, 0>>}
    /\ Slice(m, 15, 17) = <<16, 8, 0>>
    /\ Slice(m, 18, 20) = <<0, 0, 0>>
    /\ DecU32BE(Slice(m, 21, 24)) = Len(m) - 24
    /\ Len(m) = 24 + 15
    /\ Slice(m, 25, Len(m)) =
          <<72, 111, 114, 99, 114, 117, 120, 32, 84, 101, 115, 116, 32, 86, 77>>

\* C34: the fourth message a handler sends, the ServerInit, is 24+M bytes: width
\* and height big-endian at bytes 0..3, the 16-byte pixel format at 4..19 (four
\* 1-byte fields, three 16-bit fields, three shifts, three zero bytes), the
\* big-endian name length M at 20..23 and exactly the M name bytes after it.
C34_ServerInitLayout ==
    /\ (ServerRuns /\ Len(sv.sent) >= 4) => ServerInitLayout(sv.sent[4])
    /\ PoolRuns =>
          \A c \in Conns : Len(conns[c].sent) >= 4 => ServerInitLayout(conns[c].sent[4])

C34_Witness ==
    /\ ServerRuns /\ Len(sv.sent) >= 4 /\ Len(sv.sent[4]) = 39
    /\ sv.pc = "session"

\* the recv(1) of Step 6 returned one byte in this step
ClientInitRead ==
    /\ ServerRuns /\ sv.pc = "recv_client_init"
    /\ sv'.reads = Append(sv.reads, <<1, 1>>)

\* C35: whatever byte the recv(1) of ClientInit returned, the handler goes on to
\* send ServerInit: its state after the read is the same for every value but for
\* the stored flag, nothing is sent by the read, and the send that follows appends
\* the same ServerInit, whatever the flag.
C35_SharedFlagIgnored ==
    [][/\ ClientInitRead =>
            /\ sv'.shared_flag = net.c2s[1]
            /\ [sv' EXCEPT !.shared_flag = 0]
                  = [sv EXCEPT !.pc = "send_server_init", !.shared_flag = 0,
                               !.reads = Append(@, <<1, 1>>)]
       /\ (ServerRuns /\ sv.pc = "send_server_init" /\ sv' # sv) =>
            \/ /\ sv'.pc = "session"
               /\ sv'.sent = Append(sv.sent,
                      ServerInitMsg(ServerWidth, ServerHeight, byteorder, DesktopName))
               /\ sv'.shared_flag = sv.shared_flag
            \/ net.srst /\ sv'.pc = "done" /\ sv'.sent = sv.sent]_vars

C35_Witness ==
    /\ ServerRuns /\ sv.shared_flag = 255
    /\ Len(sv.sent) = 4 /\ Len(sv.sent[4]) = 39

\* the handler is in the session loop, the client has sent nothing that is still
\* unread and has neither closed nor reset the connection: the recv(1024) under
\* settimeout(1.0) can only time out
SessionIdle ==
    /\ ServerRuns /\ sv.pc = "session"
    /\ net.c2s = <<>> /\ ~net.cclosed /\ ~net.srst

\* C36: a step of the handler from an idle session, which is a timeout of its
\* read, counts one more timeout and changes nothing else: the handler is still
\* in the session loop at its recv, it has sent nothing, and the connection is as
\* it was, open; this holds from every idle session, whatever the number of
\* timeouts before it.
C36_IdleIsNotFailure ==
    [][(SessionIdle /\ sv' # sv) =>
            /\ sv' = [sv EXCEPT !.idle = @ + 1]
            /\ sv'.pc = "session" /\ sv'.sent = sv.sent
            /\ net' = net /\ ~net'.sclosed]_vars

C36_Witness ==
    /\ ServerRuns /\ sv.pc = "session" /\ sv.idle = MaxIdle
    /\ ~net.sclosed /\ ~net.cclosed /\ Len(sv.sent) = 4

\* C37: the step in which a handler ends, in whichever way, leaves the socket of
\* its connection closed, on the single connection and on each of the simultaneous
\* ones; and once the socket of a connection is closed it stays closed and no step
\* adds a message to what was sent on it or a byte to what travels to its client.
C37_EndedMeansClosed ==
    [][/\ (sv'.pc = "done" /\ sv.pc # "done") => net'.sclosed
       /\ \A c \in Conns :
                (conns'[c].pc = "done" /\ conns[c].pc # "done") => conns'[c].closed
       /\ (ServerRuns /\ net.sclosed) =>
            /\ sv'.sent = sv.sent
            /\ Len(net'.s2c) <= Len(net.s2c)
            /\ net'.sclosed
       /\ \A c \in Conns : conns[c].closed =>
            /\ conns'[c].sent = conns[c].sent
            /\ conns'[c].closed]_vars

\* both simultaneous handlers have ended and closed their sockets while the
\* server runs on, one after the whole handshake and one before the end of it
C37_Witness ==
    /\ srv.running
    /\ \A c \in Conns : conns[c].pc = "done" /\ conns[c].closed
    /\ \E c, d \in Conns : Len(conns[c].sent) >= 4 /\ Len(conns[d].sent) < 4

====
